---- MODULE Spec2Model ----
(***************************************************************************)
(* Model of joeynmt/search.py: the greedy and beam-search decode loops.    *)
(*                                                                         *)
(* Tensors are sequences; slot s of a flat (batch*k) tensor is element     *)
(* s + 1 of the sequence.  Log-probabilities are integers (scaled), with   *)
(* NegInf for float("-inf"); a length-normalised score is a rational       *)
(* <<num, den>>.  Arithmetic is exact: float rounding is not modelled.     *)
(* torch.argmax and torch.topk break ties by the lowest index.             *)
(*                                                                         *)
(* The decoder (joeynmt.decoders) is a deterministic recurrent scoring     *)
(* model.  Its state is kept as the free term over everything it was fed,  *)
(* and its output distribution is drawn when a state is first queried and  *)
(* remembered in oracle, so that equal inputs give equal outputs.          *)
(***************************************************************************)
EXTENDS Integers, Sequences, FiniteSets, TLC

VARIABLES
    \* the call's inputs
    scenario, batch_size, size, n_best, alpha, max_output_length, return_logp,
    \* the scoring model's outputs drawn so far: decoder input |-> row of DistTable
    oracle,
    \* control: where the caller and the running function are
    pc,
    \* greedy's locals
    g_t, g_prev_y, g_output, g_log_probs, g_hidden, g_prev_att_vector, g_end,
    g_stacked_output,
    \* beam_search's locals
    step, hidden, att_vectors, encoder_output, src_mask, batch_offset,
    alive_seq, topk_log_probs, tlp_2d, hypotheses, results,
    final_outputs, final_logprobs,
    \* history (not program state): the decoder calls of the running
    \* function, per instance the steps at which it was retired, and the
    \* latest step's topk_beam_index (flat, one entry per selected slot)
    n_queries, retired, origins

config_vars == <<scenario, batch_size, size, n_best, alpha, max_output_length,
                 return_logp>>
greedy_vars == <<g_t, g_prev_y, g_output, g_log_probs, g_hidden,
                 g_prev_att_vector, g_end, g_stacked_output>>
beam_vars == <<step, hidden, att_vectors, encoder_output, src_mask,
               batch_offset, alive_seq, topk_log_probs, tlp_2d, hypotheses,
               results, final_outputs, final_logprobs, retired, origins>>
vars == <<config_vars, oracle, pc, greedy_vars, beam_vars, n_queries>>

----------------------------------------------------------------------------
\* Bounds of the explored inputs.
MaxBatch == 3
MaxBeam == 2
MaxLen == 3
MaxNBest == 3
NumDists == 2
\* at most this many scoring models (draws of a row for every distinct
\* decoder input) for one shape of call
MaxDraws == 1024

\* Token ids handed to greedy and beam_search.
pad_index == 1
bos_index == 2
eos_index == 3

\* float("-inf")
NegInf == -1000000

\* Rows the scoring model's log_softmax output is drawn from: element v + 1
\* is the log-probability of token v (0 = <unk>, 1 = <pad>, 2 = <s>,
\* 3 = </s>, 4.. = words).
DistTable ==
    << <<-4, -5, -6, -3, -2>>,      \* word, then </s>
       <<-5, -6, -7, -1, -3>>,      \* </s>, then word
       <<-2, -6, -7, -3, -2>>,      \* <unk> and word tie, then </s>
       <<-5, -1, -6, -3, -2>>,      \* <pad>, then word, then </s>
       <<-3, -3, -3, -3, -3>> >>    \* uniform

\* decoder.output_size
output_size == Len(DistTable[1])

Vocab == 0 .. (output_size - 1)

\* alpha <= -1 disables the length penalty
Alphas == {-1, 1}

None == <<>>

----------------------------------------------------------------------------
\* Helpers on sequences and numbers.

At(seq, i) == seq[i + 1]

\* a tensor's value, computed once (TLC keeps a function constructor
\* unevaluated otherwise)
Tensor(f) == f \o <<>>

\* the same for a function that is no sequence
Fun(f) == f @@ <<>>

Last(seq) == seq[Len(seq)]

RECURSIVE Pow(_, _)
Pow(a, n) == IF n = 0 THEN 1 ELSE a * Pow(a, n - 1)

RECURSIVE MaxOf(_)
MaxOf(S) ==
    LET x == CHOOSE y \in S : TRUE
    IN  IF S = {x} THEN x
        ELSE LET m == MaxOf(S \ {x}) IN IF x > m THEN x ELSE m

\* float addition with -inf absorbing
AddLogP(a, b) == IF a = NegInf \/ b = NegInf THEN NegInf ELSE a + b

\* rationals <<num, den>>, den > 0; -inf is <<-1, 0>>
NegInfScore == <<-1, 0>>

ScoreLess(a, b) == a[1] * b[2] < b[1] * a[2]

ScoreEq(a, b) == a[1] * b[2] = b[1] * a[2]

ScoreLeq(a, b) == ScoreLess(a, b) \/ ScoreEq(a, b)

\* x.index_select(0, idx): idx is a sequence of 0-based positions
IndexSelect(x, idx) == Tensor([n \in 1 .. Len(idx) |-> At(x, idx[n])])

\* tile(x, count, dim): contiguous replication along the batch axis
Tile(x, count) ==
    Tensor([n \in 1 .. (Len(x) * count) |-> At(x, (n - 1) \div count)])

----------------------------------------------------------------------------
\* The scoring model.

\* decoder._init_hidden(encoder_hidden) for one instance
InitHidden(enc_hidden) == <<enc_hidden>>

\* what one decoder call reads for one slot
DecoderInput(enc, mask, tok, hid, att) == <<hid, att, tok, enc, mask>>

\* the new recurrent state: a function of everything the call read
DecoderHidden(key) == key

\* the new attention vector
DecoderAttVector(key) == <<key>>

\* log_softmax(out) for a decoder input, short of the cumulative score
LogSoftmax(orc, key) == DistTable[orc[key]]

\* oracle extended by a draw for every input not queried before
ExtendOracle(keys, draw) ==
    [k \in (DOMAIN oracle) \cup keys |->
        IF k \in DOMAIN oracle THEN oracle[k] ELSE draw[k]]

\* torch.argmax over the vocabulary: the first index of the maximum
ArgMax(row) ==
    CHOOSE v \in Vocab :
        /\ \A w \in Vocab : At(row, w) <= At(row, v)
        /\ \A w \in Vocab : At(row, w) = At(row, v) => v <= w

----------------------------------------------------------------------------
\* Inputs.  Instance b (0 .. batch_size - 1) has encoder output, source mask
\* and encoder hidden state b.

Instances == 0 .. (batch_size - 1)

InputRows == [n \in 1 .. batch_size |-> n - 1]

\* distinct decoder inputs a call with b instances, k slots and l steps can make
Keys(b, k, l) == b * (1 + k * (l - 1))

\* NumDists ** keys, not computed beyond MaxDraws
RECURSIVE Draws(_)
Draws(keys) ==
    IF keys = 0 THEN 1
    ELSE LET d == Draws(keys - 1)
         IN  IF d > MaxDraws THEN d ELSE NumDists * d

\* The caller decodes a batch with greedy, with beam_search, or ("both")
\* with greedy and then with beam_search of size 1 on the same batch.
Init ==
    /\ scenario \in {"greedy", "beam", "both"}
    /\ batch_size \in 1 .. MaxBatch
    /\ size \in 1 .. MaxBeam
    /\ n_best \in 1 .. MaxNBest
    /\ alpha \in Alphas
    /\ max_output_length \in 1 .. MaxLen
    /\ return_logp \in BOOLEAN
    /\ scenario = "greedy" => size = 1 /\ n_best = 1 /\ alpha = -1
    /\ scenario = "both" => size = 1
    /\ Draws(Keys(batch_size, size, max_output_length)) <= MaxDraws
    /\ oracle = <<>>
    /\ pc = "start"
    /\ g_t = 0
    /\ g_prev_y = <<>>
    /\ g_output = <<>>
    /\ g_log_probs = <<>>
    /\ g_hidden = None
    /\ g_prev_att_vector = None
    /\ g_end = <<>>
    /\ g_stacked_output = <<>>
    /\ step = 0
    /\ hidden = <<>>
    /\ att_vectors = None
    /\ encoder_output = <<>>
    /\ src_mask = <<>>
    /\ batch_offset = <<>>
    /\ alive_seq = <<>>
    /\ topk_log_probs = <<>>
    /\ tlp_2d = FALSE
    /\ hypotheses = <<>>
    /\ results = <<>>
    /\ final_outputs = <<>>
    /\ final_logprobs = None
    /\ n_queries = 0
    /\ retired = <<>>
    /\ origins = <<>>

----------------------------------------------------------------------------
\* greedy

\* search.py 37-45: the locals before the loop
GreedyCall ==
    /\ pc = "start"
    /\ scenario \in {"greedy", "both"}
    /\ pc' = "greedy_loop"
    /\ g_t' = 0
    /\ g_prev_y' = [n \in 1 .. batch_size |-> bos_index]
    /\ g_output' = <<>>
    /\ g_log_probs' = [n \in 1 .. batch_size |-> 0]
    /\ g_hidden' = None
    /\ g_prev_att_vector' = None
    /\ g_end' = [n \in 1 .. batch_size |-> 0]
    /\ n_queries' = 0
    /\ UNCHANGED <<config_vars, oracle, g_stacked_output, beam_vars>>

\* the decoder input of instance row n in greedy's step
GreedyKey(n) ==
    DecoderInput(InputRows[n], InputRows[n], g_prev_y[n],
                 IF g_hidden = None THEN InitHidden(InputRows[n])
                 ELSE g_hidden[n],
                 IF g_prev_att_vector = None THEN None
                 ELSE g_prev_att_vector[n])

\* end += (pred == eos_index)
GreedyEnd(end, pred) ==
    [n \in 1 .. Len(end) |-> end[n] + (IF pred[n] = eos_index THEN 1 ELSE 0)]

\* end_mask = end < 1
GreedyEndMask(end) == [n \in 1 .. Len(end) |-> end[n] < 1]

\* log_prob.index_select(1, next_word.squeeze())[:, 0]: column 0 of the
\* batch x batch selection, the column of the token next_word[0]
GreedySelectedLogProb(log_prob, next_word) ==
    [n \in 1 .. Len(log_prob) |-> At(log_prob[n], next_word[1])]

\* (end > 1).sum() >= batch_size
GreedyStop(end) ==
    Cardinality({n \in 1 .. Len(end) : end[n] > 1}) >= Len(end)

\* search.py 48-77: one iteration of the loop
GreedyStep ==
    /\ pc = "greedy_loop"
    /\ LET keys == [n \in 1 .. batch_size |-> GreedyKey(n)]
           new == {keys[n] : n \in 1 .. batch_size} \ DOMAIN oracle
       IN  \E draw \in [new -> 1 .. NumDists] :
             LET orc == ExtendOracle(new, draw)
                 log_prob == [n \in 1 .. batch_size |-> LogSoftmax(orc, keys[n])]
                 next_word == [n \in 1 .. batch_size |-> ArgMax(log_prob[n])]
                 end == GreedyEnd(g_end, next_word)
                 end_mask == GreedyEndMask(end)
                 selected == GreedySelectedLogProb(log_prob, next_word)
             IN  /\ oracle' = orc
                 /\ g_hidden' = [n \in 1 .. batch_size |-> DecoderHidden(keys[n])]
                 /\ g_prev_att_vector' =
                        [n \in 1 .. batch_size |-> DecoderAttVector(keys[n])]
                 /\ g_output' = Append(g_output, next_word)
                 /\ g_prev_y' = next_word
                 /\ g_end' = end
                 /\ g_log_probs' =
                        IF return_logp
                        THEN [n \in 1 .. batch_size |->
                                 g_log_probs[n]
                                 + (IF end_mask[n] THEN selected[n] ELSE 0)]
                        ELSE g_log_probs
                 /\ n_queries' = n_queries + 1
                 /\ IF GreedyStop(end) \/ g_t + 1 = max_output_length
                    THEN pc' = "greedy_stack" /\ g_t' = g_t
                    ELSE pc' = "greedy_loop" /\ g_t' = g_t + 1
    /\ UNCHANGED <<config_vars, g_stacked_output, beam_vars>>

\* search.py 79-81: np.stack(output, axis=1)
GreedyReturn ==
    /\ pc = "greedy_stack"
    /\ g_stacked_output' =
           [n \in 1 .. batch_size |->
               [t \in 1 .. Len(g_output) |-> g_output[t][n]]]
    /\ pc' = "greedy_done"
    /\ UNCHANGED <<config_vars, oracle, g_t, g_prev_y, g_output, g_log_probs,
                   g_hidden, g_prev_att_vector, g_end, beam_vars, n_queries>>

----------------------------------------------------------------------------
\* beam_search

\* search.py 129-134: torch.arange(0, batch_size * size, step=size)
BeamOffset == [n \in 1 .. batch_size |-> (n - 1) * size]

\* full probability given to every beam on the first step
InitTopkLogProbsAllZero == [n \in 1 .. (batch_size * size) |-> 0]

\* search.py 143-145: [0.0] + [-inf] * (size - 1), repeated batch_size times
InitTopkLogProbs ==
    [n \in 1 .. (batch_size * size) |->
        IF (n - 1) % size = 0 THEN 0 ELSE NegInf]

\* search.py 114-153: the locals before the loop
BeamCall ==
    /\ \/ pc = "start" /\ scenario = "beam"
       \/ pc = "greedy_done" /\ scenario = "both"
    /\ pc' = "beam_loop"
    /\ hidden' = Tile([n \in 1 .. batch_size |-> InitHidden(InputRows[n])], size)
    /\ att_vectors' = None
    /\ encoder_output' = Tile(InputRows, size)
    /\ src_mask' = Tile(InputRows, size)
    /\ batch_offset' = [n \in 1 .. batch_size |-> n - 1]
    /\ alive_seq' = [n \in 1 .. (batch_size * size) |-> <<bos_index>>]
    /\ topk_log_probs' = InitTopkLogProbs
    /\ tlp_2d' = FALSE
    /\ hypotheses' = [b \in Instances |-> <<>>]
    /\ results' = [predictions |-> [b \in Instances |-> <<>>],
                   scores |-> [b \in Instances |-> <<>>],
                   gold_score |-> [b \in Instances |-> 0]]
    /\ step' = 0
    /\ retired' = [b \in Instances |-> <<>>]
    /\ origins' = <<>>
    /\ n_queries' = 0
    /\ UNCHANGED <<config_vars, oracle, greedy_vars, final_outputs,
                   final_logprobs>>

\* the decoder input of flat slot n in beam_search's step
BeamKey(n) ==
    DecoderInput(encoder_output[n], src_mask[n], Last(alive_seq[n]),
                 hidden[n],
                 IF att_vectors = None THEN None ELSE att_vectors[n])

\* search.py 174: log_probs += topk_log_probs.view(-1).unsqueeze(1) can be
\* broadcast when the column has one entry per row, or a single entry
BroadcastOk(rows, col) == Len(col) = rows \/ Len(col) = 1

\* search.py 174: the entry of topk_log_probs.view(-1).unsqueeze(1) that is
\* broadcast to flat slot n
RunningScore(col, n) == IF Len(col) = 1 THEN col[1] ELSE col[n]

\* search.py 174: the row's log-probabilities plus the slot's running score
AddRunningScore(log_prob, col, n) ==
    LET c == RunningScore(col, n)
    IN  Tensor([v \in 1 .. Len(log_prob) |-> AddLogP(log_prob[v], c)])

\* search.py 179: ((5 + (step + 1)) / 6) ** alpha as <<num, den>>
LengthPenalty(stp) == <<Pow(5 + (stp + 1), alpha), Pow(6, alpha)>>

\* search.py 175-180: the score compared by topk
CurrScore(logp, stp) ==
    IF logp = NegInf THEN NegInfScore
    ELSE IF alpha > -1
         THEN <<logp * LengthPenalty(stp)[2], LengthPenalty(stp)[1]>>
         ELSE <<logp, 1>>

\* search.py 190: topk_scores * length_penalty
RecoverLogProb(score, stp) ==
    IF score[2] = 0 THEN NegInf
    ELSE (score[1] * LengthPenalty(stp)[1])
             \div (score[2] * LengthPenalty(stp)[2])

\* the candidate torch.topk ranks first among the flat ids in S
BestOf(scores, S) ==
    CHOOSE f \in S :
        \A g \in S :
            \/ ScoreLess(At(scores, g), At(scores, f))
            \/ ScoreEq(At(scores, g), At(scores, f)) /\ f <= g

RECURSIVE TopKFrom(_, _, _)
TopKFrom(scores, S, k) ==
    IF k = 0 THEN <<>>
    ELSE LET f == BestOf(scores, S)
         IN  <<f>> \o TopKFrom(scores, S \ {f}, k - 1)

\* search.py 186: curr_scores.topk(size): the flat ids of the k best, best first
TopK(scores, k) == TopKFrom(scores, 0 .. (Len(scores) - 1), k)

\* search.py 183: row i (0-based) of curr_scores.reshape(-1, size * output_size)
Reshape(curr, i) ==
    Tensor([f \in 1 .. (size * output_size) |->
               At(At(curr, i * size + ((f - 1) \div output_size)),
                  (f - 1) % output_size)])

\* is_finished without the forced finish of the last allowed step
IsFinishedNoForce(tok, stp) == tok = eos_index

\* search.py 207-209: is_finished for a selected token at a step
IsFinished(tok, stp) == tok = eos_index \/ stp + 1 = max_output_length

\* is_finished[i].fill_(1) for every instance, retiring or not
FinishedRowAll(fin, endc) == [r \in 1 .. Len(fin) |-> TRUE]

\* search.py 218-219: is_finished[i].fill_(1) when the top beam is finished
FinishedRow(fin, endc) == IF endc THEN [r \in 1 .. Len(fin) |-> TRUE] ELSE fin

\* predictions[i, j, :], the start token kept
HypTokensKeepBos(row) == row

\* search.py 225: predictions[i, j, 1:]
HypTokens(row) == Tail(row)

\* search.py 220-226: the entries appended for one instance, in rank order;
\* hist (history, not program state) keeps the slot's whole row
RECURSIVE FinishedHyps(_, _, _, _)
FinishedHyps(fin, scores, rows, r) ==
    IF r > Len(fin) THEN <<>>
    ELSE (IF fin[r]
          THEN << [score |-> scores[r], pred |-> HypTokens(rows[r]),
                   hist |-> rows[r]] >>
          ELSE <<>>)
         \o FinishedHyps(fin, scores, rows, r + 1)

\* where a stable descending sort puts e: behind every entry not below it
RECURSIVE InsertDesc(_, _)
InsertDesc(sorted, e) ==
    IF sorted = <<>> THEN <<e>>
    ELSE IF ScoreLess(Head(sorted).score, e.score)
         THEN <<e>> \o sorted
         ELSE <<Head(sorted)>> \o InsertDesc(Tail(sorted), e)

RECURSIVE SortedFrom(_, _)
SortedFrom(sorted, rest) ==
    IF rest = <<>> THEN sorted
    ELSE SortedFrom(InsertDesc(sorted, Head(rest)), Tail(rest))

\* the pool in the order of its appends, not sorted
BestHypUnsorted(pool) == pool

\* search.py 229-230: sorted(hypotheses[b], key=score, reverse=True)
BestHyp(pool) == SortedFrom(<<>>, pool)

\* search.py 231-235: the first n_best entries of best_hyp
NBest(best_hyp) ==
    SubSeq(best_hyp, 1, IF Len(best_hyp) < n_best THEN Len(best_hyp) ELSE n_best)

\* every row kept, the rows whose top beam is finished too
NonFinishedAll(endc) == [i \in 1 .. Len(endc) |-> i - 1]

\* search.py 236: end_condition.eq(0).nonzero(): 0-based rows, ascending
RECURSIVE NonFinishedFrom(_, _)
NonFinishedFrom(endc, i) ==
    IF i > Len(endc) THEN <<>>
    ELSE (IF endc[i] THEN <<>> ELSE <<i - 1>>) \o NonFinishedFrom(endc, i + 1)

NonFinished(endc) == NonFinishedFrom(endc, 1)

\* search.py 217: the row i with batch_offset[i] = b
RowOf(offsets, b) == CHOOSE i \in 1 .. Len(offsets) : offsets[i] = b

\* x.index_select(0, rows) on a tensor of rows of k slots, flattened
SelectRows(x, rows, k) ==
    Tensor([n \in 1 .. (Len(rows) * k) |->
               At(x, At(rows, (n - 1) \div k) * k + ((n - 1) % k))])

\* search.py 242: topk_log_probs.index_select(0, non_finished): rows of the
\* n x size tensor of line 190, entries of the flat tensor of line 143
SelectTopkLogProbs(tlp, is2d, rows) ==
    IF is2d THEN SelectRows(tlp, rows, size) ELSE IndexSelect(tlp, rows)

\* the per-slot state left as the decoder returned it, not gathered
ReorderNone(x, select_indices) == x

\* search.py 250-263: the state a slot keeps for the next step
Reorder(x, select_indices) == IndexSelect(x, select_indices)

\* slot n (1-based, flat) of a tensor of rows of size slots
Slot(x, n) == x[((n - 1) \div size) + 1][((n - 1) % size) + 1]

\* search.py 155-263: one iteration of the loop.  (\E x \in {e} names the
\* value of e, as LET does, and has TLC compute it once.)
BeamStep ==
    /\ pc = "beam_loop"
    /\ \E slots \in {Len(alive_seq)}, rows \in {Len(batch_offset)} :
       \E keys \in {Tensor([n \in 1 .. slots |-> BeamKey(n)])} :
       \E draw \in [{keys[n] : n \in 1 .. slots} \ DOMAIN oracle
                        -> 1 .. NumDists] :
       \E orc \in {Fun(ExtendOracle(DOMAIN draw, draw))} :
       \E new_hidden \in {Tensor([n \in 1 .. slots |-> DecoderHidden(keys[n])])},
          new_att \in {Tensor([n \in 1 .. slots |-> DecoderAttVector(keys[n])])} :
         IF ~BroadcastOk(slots, topk_log_probs)
         THEN \* RuntimeError at line 174, after the decoder call
              /\ pc' = "runtime_error"
              /\ oracle' = orc
              /\ hidden' = new_hidden
              /\ att_vectors' = new_att
              /\ n_queries' = n_queries + 1
              /\ UNCHANGED <<step, encoder_output, src_mask, batch_offset,
                             alive_seq, topk_log_probs, tlp_2d, hypotheses,
                             results, retired, origins>>
         ELSE
         \E log_probs \in
                {Tensor([n \in 1 .. slots |->
                            AddRunningScore(LogSoftmax(orc, keys[n]),
                                            topk_log_probs, n)])} :
         \E curr \in
                {Tensor([n \in 1 .. slots |->
                            Tensor([v \in 1 .. output_size |->
                                       CurrScore(log_probs[n][v], step)])])} :
         \E reshaped \in {Tensor([i \in 1 .. rows |-> Reshape(curr, i - 1)])} :
         \* per row i: flat ids, scores, origin beams and tokens
         \E flat \in {Tensor([i \in 1 .. rows |-> TopK(reshaped[i], size)])} :
         \E topk_scores \in
                {Tensor([i \in 1 .. rows |->
                            Tensor([r \in 1 .. size |->
                                       At(reshaped[i], flat[i][r])])])},
            topk_beam_index \in
                {Tensor([i \in 1 .. rows |->
                            Tensor([r \in 1 .. size |->
                                       flat[i][r] \div output_size])])},
            topk_ids \in
                {Tensor([i \in 1 .. rows |->
                            Tensor([r \in 1 .. size |->
                                       flat[i][r] % output_size])])} :
         \E tlp1 \in
                {IF alpha > -1
                 THEN Tensor([n \in 1 .. slots |->
                                 RecoverLogProb(Slot(topk_scores, n), step)])
                 ELSE topk_log_probs},
            tlp1_2d \in {IF alpha > -1 THEN TRUE ELSE tlp_2d},
            \* batch_index, flattened row-major
            batch_index \in
                {Tensor([n \in 1 .. slots |->
                            Slot(topk_beam_index, n)
                            + BeamOffset[((n - 1) \div size) + 1]])} :
         \E alive1 \in
                {Tensor([n \in 1 .. slots |->
                            Append(At(alive_seq, batch_index[n]),
                                   Slot(topk_ids, n))])},
            is_finished \in
                {Tensor([i \in 1 .. rows |->
                            Tensor([r \in 1 .. size |->
                                       IsFinished(topk_ids[i][r], step)])])} :
         \E end_condition \in
                {Tensor([i \in 1 .. rows |-> is_finished[i][1]])},
            any \in {\E i \in 1 .. rows : \E r \in 1 .. size : is_finished[i][r]},
            predictions \in
                {Tensor([i \in 1 .. rows |->
                            Tensor([r \in 1 .. size |->
                                       alive1[(i - 1) * size + r]])])},
            active \in {{batch_offset[i] : i \in 1 .. rows}} :
         \E non_finished \in {NonFinished(end_condition)},
            hyps1 \in
                {Fun([b \in Instances |->
                         IF any /\ b \in active
                         THEN hypotheses[b]
                              \o FinishedHyps(
                                     FinishedRow(is_finished[RowOf(batch_offset, b)],
                                                 end_condition[RowOf(batch_offset, b)]),
                                     topk_scores[RowOf(batch_offset, b)],
                                     predictions[RowOf(batch_offset, b)], 1)
                         ELSE hypotheses[b]])},
            retires \in
                {{b \in active : any /\ end_condition[RowOf(batch_offset, b)]}} :
         \E n_best_hyp \in
                {Fun([b \in Instances |->
                         IF b \in retires THEN NBest(BestHyp(hyps1[b]))
                         ELSE <<>>])},
            batch_index2 \in
                {IF any THEN SelectRows(batch_index, non_finished, size)
                 ELSE batch_index} :
            /\ oracle' = orc
            /\ n_queries' = n_queries + 1
            /\ origins' = Tensor([n \in 1 .. slots |-> Slot(topk_beam_index, n)])
            /\ hypotheses' = hyps1
            /\ results' =
                   [results EXCEPT
                       !.predictions =
                           Fun([b \in Instances |->
                                   @[b] \o [n \in 1 .. Len(n_best_hyp[b]) |->
                                               n_best_hyp[b][n].pred]]),
                       !.scores =
                           Fun([b \in Instances |->
                                   @[b] \o [n \in 1 .. Len(n_best_hyp[b]) |->
                                               n_best_hyp[b][n].score]])]
            /\ retired' = Fun([b \in Instances |->
                                  IF b \in retires THEN Append(retired[b], step)
                                  ELSE retired[b]])
            /\ IF any /\ Len(non_finished) = 0
               THEN \* break at line 240
                    /\ pc' = "beam_stack"
                    /\ step' = step
                    /\ alive_seq' = alive1
                    /\ topk_log_probs' = tlp1
                    /\ tlp_2d' = tlp1_2d
                    /\ hidden' = new_hidden
                    /\ att_vectors' = new_att
                    /\ UNCHANGED <<encoder_output, src_mask, batch_offset>>
               ELSE /\ pc' = IF step + 1 = max_output_length
                             THEN "beam_stack" ELSE "beam_loop"
                    /\ step' = step + 1
                    /\ alive_seq' =
                           IF any THEN SelectRows(alive1, non_finished, size)
                           ELSE alive1
                    /\ topk_log_probs' =
                           IF any
                           THEN SelectTopkLogProbs(tlp1, tlp1_2d, non_finished)
                           ELSE tlp1
                    /\ tlp_2d' = tlp1_2d
                    /\ batch_offset' =
                           IF any THEN IndexSelect(batch_offset, non_finished)
                           ELSE batch_offset
                    /\ encoder_output' = Reorder(encoder_output, batch_index2)
                    /\ src_mask' = Reorder(src_mask, batch_index2)
                    /\ hidden' = Reorder(new_hidden, batch_index2)
                    /\ att_vectors' = Reorder(new_att, batch_index2)
    /\ UNCHANGED <<config_vars, greedy_vars, final_outputs, final_logprobs>>

\* search.py 265-271: rows padded with pad_value to the longest row
PadAndStackHyps(hyps, pad_value) ==
    LET width == MaxOf({Len(hyps[n]) : n \in 1 .. Len(hyps)})
    IN  [n \in 1 .. Len(hyps) |->
            [c \in 1 .. width |->
                IF c <= Len(hyps[n]) THEN hyps[n][c] ELSE pad_value]]

\* search.py 273-285: from results to stacked outputs
BeamReturn ==
    /\ pc = "beam_stack"
    /\ IF n_best # 1
       THEN \* assert n_best == 1
            /\ pc' = "assertion_error"
            /\ UNCHANGED <<final_outputs, final_logprobs>>
       ELSE IF \E b \in Instances : Len(results.predictions[b]) = 0
       THEN \* r[0] of an empty list
            /\ pc' = "index_error"
            /\ UNCHANGED <<final_outputs, final_logprobs>>
       ELSE /\ pc' = "beam_done"
            /\ final_outputs' =
                   PadAndStackHyps([n \in 1 .. batch_size |->
                                       results.predictions[n - 1][1]],
                                   pad_index)
            /\ final_logprobs' =
                   IF return_logp
                   THEN [n \in 1 .. batch_size |-> results.scores[n - 1][1]]
                   ELSE None
    /\ UNCHANGED <<config_vars, oracle, greedy_vars, step, hidden, att_vectors,
                   encoder_output, src_mask, batch_offset, alive_seq,
                   topk_log_probs, tlp_2d, hypotheses, results, retired,
                   origins, n_queries>>

----------------------------------------------------------------------------
Next ==
    \/ GreedyCall
    \/ GreedyStep
    \/ GreedyReturn
    \/ BeamCall
    \/ BeamStep
    \/ BeamReturn

Spec == Init /\ [][Next]_vars

----------------------------------------------------------------------------
\* Definitions the properties share.

BeamPcs == {"beam_loop", "beam_stack", "beam_done", "assertion_error",
            "runtime_error", "index_error"}

Front(seq) == SubSeq(seq, 1, Len(seq) - 1)

\* The recurrent state of instance b after its own tokens toks were fed to
\* the scoring model one by one from the start.
RECURSIVE ReplayState(_, _)
ReplayState(b, toks) ==
    IF toks = <<>> THEN [hid |-> InitHidden(b), att |-> None]
    ELSE LET prev == ReplayState(b, Front(toks))
             key == DecoderInput(b, b, Last(toks), prev.hid, prev.att)
         IN  [hid |-> DecoderHidden(key), att |-> DecoderAttVector(key)]

\* The decoder input of instance b when toks (not empty) are fed from the start.
ReplayKey(b, toks) ==
    LET prev == ReplayState(b, Front(toks))
    IN  DecoderInput(b, b, Last(toks), prev.hid, prev.att)

\* row up to and including its first eos_index (the whole row without one)
RECURSIVE TrimAfterEos(_)
TrimAfterEos(row) ==
    IF row = <<>> THEN <<>>
    ELSE IF Head(row) = eos_index THEN <<eos_index>>
         ELSE <<Head(row)>> \o TrimAfterEos(Tail(row))

PadTo(row, width) ==
    [c \in 1 .. width |-> IF c <= Len(row) THEN row[c] ELSE pad_index]

HasEos(row) == \E c \in 1 .. Len(row) : row[c] = eos_index

\* greedy's tokens of instance row n, in step order
GreedyTokens(n) == [t \in 1 .. Len(g_output) |-> g_output[t][n]]

----------------------------------------------------------------------------
\* C1 as stated: beam_search with size = 1, n_best = 1 and the length
\* penalty disabled returns the very matrix greedy returns for the batch.
C1_BeamOneEqualsGreedy ==
    (pc = "beam_done" /\ scenario = "both" /\ size = 1 /\ n_best = 1
        /\ alpha <= -1)
    => final_outputs = g_stacked_output

\* C1 amended: beam_search with size = 1, n_best = 1 and the length penalty
\* disabled returns greedy's matrix with every token behind an instance's
\* first EOS replaced by PAD and cut to the longest such row; greedy's own
\* rows run on behind the first EOS and have at least as many columns.
C1_BeamOneEqualsTrimmedGreedy ==
    (pc = "beam_done" /\ scenario = "both" /\ size = 1 /\ n_best = 1
        /\ alpha <= -1)
    => LET trimmed == [n \in 1 .. batch_size |->
                          TrimAfterEos(g_stacked_output[n])]
           width == MaxOf({Len(trimmed[n]) : n \in 1 .. batch_size})
       IN  /\ Len(final_outputs) = batch_size
           /\ \A n \in 1 .. batch_size :
                /\ final_outputs[n] = PadTo(trimmed[n], width)
                /\ Len(g_stacked_output[n]) >= width

\* C1 witness: both decoders returned for a batch in which greedy produced a
\* token behind an instance's first EOS.
C1_Witness ==
    /\ pc = "beam_done" /\ scenario = "both" /\ size = 1 /\ n_best = 1
    /\ alpha <= -1 /\ batch_size >= 2
    /\ \E n \in 1 .. batch_size :
         Len(TrimAfterEos(g_stacked_output[n])) < Len(g_stacked_output[n])
    /\ \E n \in 1 .. batch_size : ~HasEos(g_stacked_output[n])

----------------------------------------------------------------------------
\* the steps (1-based) by which every instance has produced EOS
AllEosSteps ==
    {t \in 1 .. Len(g_output) :
        \A n \in 1 .. batch_size : \E u \in 1 .. t : g_output[u][n] = eos_index}

\* C2 as stated: greedy's loop stops right after the first step by which
\* every instance has produced EOS at least once, and runs max_output_length
\* steps when there is no such step.
C2_StopsAtFirstAllEos ==
    pc = "greedy_stack"
    => IF AllEosSteps # {}
       THEN \A t \in AllEosSteps : Len(g_output) <= t
       ELSE Len(g_output) = max_output_length

----------------------------------------------------------------------------
\* the log-probability instance row n gave, at step t, to the token it selected
OwnLogProb(n, t) ==
    At(LogSoftmax(oracle,
                  ReplayKey(n - 1,
                            <<bos_index>> \o SubSeq(GreedyTokens(n), 1, t - 1))),
       g_output[t][n])

\* the steps of instance row n up to and including its first EOS
UpToFirstEos(n) ==
    {t \in 1 .. Len(g_output) :
        \A u \in 1 .. (t - 1) : g_output[u][n] # eos_index}

RECURSIVE SumOver(_, _, _)
SumOver(n, T, t) ==
    IF t = 0 THEN 0
    ELSE (IF t \in T THEN OwnLogProb(n, t) ELSE 0) + SumOver(n, T, t - 1)

\* C3 as stated: with return_logp, greedy's cumulative log-probability of an
\* instance is the sum of its selected tokens' log-probabilities over the
\* steps up to and including its first EOS.
C3_LogProbUpToFirstEos ==
    (pc = "greedy_stack" /\ return_logp)
    => \A n \in 1 .. batch_size :
         g_log_probs[n] = SumOver(n, UpToFirstEos(n), Len(g_output))

----------------------------------------------------------------------------
\* C4: beam_search makes at most max_output_length decode steps, and when
\* its loop has exited every instance was retired exactly once and holds at
\* least one result, so that the output construction reads no empty list.
C4_BoundedAndAllRetired ==
    /\ pc \in BeamPcs => n_queries <= max_output_length
    /\ pc = "beam_stack"
       => \A b \in Instances :
            /\ Len(retired[b]) = 1
            /\ Len(results.predictions[b]) >= 1
            /\ Len(results.scores[b]) >= 1
    /\ pc # "index_error"

\* C4 witness: the loop has exited after the last allowed step of a batch in
\* which an instance was retired earlier.
C4_Witness ==
    /\ pc = "beam_stack" /\ batch_size >= 2 /\ size >= 2
    /\ n_queries = max_output_length
    /\ \E b \in Instances : retired[b] = <<0>>
    /\ \E b \in Instances : retired[b] = <<max_output_length - 1>>

----------------------------------------------------------------------------
Malformed == size < 1 \/ n_best > size \/ n_best # 1

\* C5 as stated: with a malformed configuration beam_search raises its
\* error before any decoder query and before any decode step.
C5_ErrorBeforeDecoding ==
    (pc \in BeamPcs /\ Malformed) => (n_queries = 0 /\ step = 0)

----------------------------------------------------------------------------
\* the instance whose row holds flat slot n
SlotInstance(n) == batch_offset[((n - 1) \div size) + 1]

\* C6: at the start of every beam_search step the recurrent state in each
\* live slot is the state of replaying that slot's own instance and token
\* history (alive_seq without its last token) from the start.
C6_StateIsOwnReplay ==
    pc = "beam_loop"
    => /\ Len(hidden) = Len(alive_seq)
       /\ att_vectors = None <=> step = 0
       /\ \A n \in 1 .. Len(alive_seq) :
            LET own == ReplayState(SlotInstance(n), Front(alive_seq[n]))
            IN  /\ hidden[n] = own.hid
                /\ att_vectors # None => att_vectors[n] = own.att

\* C6 witness: a step starts after the first instance was retired, with two
\* live slots of one instance holding different histories.
C6_Witness ==
    /\ pc = "beam_loop" /\ step >= 1 /\ size >= 2
    /\ Len(batch_offset) < batch_size /\ batch_offset[1] # 0
    /\ alive_seq[1] # alive_seq[2]
    /\ Front(alive_seq[1]) # Front(alive_seq[2])

----------------------------------------------------------------------------
\* C7 as stated: the hypotheses written to a retired instance's result set
\* are in order of non-increasing score, at most n_best and at most size
\* many, and the first scores no lower than any entry of the pool.
C7_NBestOrdered ==
    pc \in BeamPcs
    => \A b \in Instances :
         Len(retired[b]) >= 1
         => /\ Len(results.scores[b]) <= n_best
            /\ Len(results.scores[b]) <= size
            /\ Len(results.scores[b]) = Len(results.predictions[b])
            /\ \A n \in 1 .. (Len(results.scores[b]) - 1) :
                 ScoreLeq(results.scores[b][n + 1], results.scores[b][n])
            /\ \A n \in 1 .. Len(hypotheses[b]) :
                 ScoreLeq(hypotheses[b][n].score, results.scores[b][1])

----------------------------------------------------------------------------
\* C8 as stated: a slot that finished is not among the live slots of the
\* next step: no sequence carried into a step contains EOS.
C8_FinishedSlotsDiscarded ==
    pc = "beam_loop" => \A n \in 1 .. Len(alive_seq) : ~HasEos(alive_seq[n])

----------------------------------------------------------------------------
\* C9 as stated: every pool entry ends with EOS or was appended at the last
\* allowed step.
C9_PoolOnlyFinished ==
    pc \in BeamPcs
    => \A b \in Instances : \A n \in 1 .. Len(hypotheses[b]) :
         \/ Last(hypotheses[b][n].hist) = eos_index
         \/ Len(hypotheses[b][n].hist) = max_output_length + 1

\* C9 amended: every pool entry ends with EOS, or was appended at the last
\* allowed step, or was appended at the step at which its instance was
\* retired (every slot of an instance whose top slot is finished is stored).
C9_PoolFinishedOrRetiring ==
    pc \in BeamPcs
    => \A b \in Instances : \A n \in 1 .. Len(hypotheses[b]) :
         \/ Last(hypotheses[b][n].hist) = eos_index
         \/ Len(hypotheses[b][n].hist) = max_output_length + 1
         \/ /\ retired[b] # <<>>
            /\ Len(hypotheses[b][n].hist) = retired[b][1] + 2

\* C9 witness: a pool holds an entry that neither ends with EOS nor was
\* appended at the last allowed step.
C9_Witness ==
    /\ pc \in BeamPcs
    /\ \E b \in Instances : \E n \in 1 .. Len(hypotheses[b]) :
         /\ Last(hypotheses[b][n].hist) # eos_index
         /\ Len(hypotheses[b][n].hist) < max_output_length + 1

----------------------------------------------------------------------------
\* C10: row b of the matrix beam_search returns is a top-scored entry of
\* instance b's pool: that slot's history without the leading BOS, then PAD
\* up to the longest returned hypothesis.
C10_RowIsTopHypothesis ==
    pc = "beam_done"
    => LET width == MaxOf({Len(results.predictions[b][1]) : b \in Instances})
       IN  /\ Len(final_outputs) = batch_size
           /\ \A b \in Instances :
                \E n \in 1 .. Len(hypotheses[b]) :
                  /\ \A m \in 1 .. Len(hypotheses[b]) :
                       ScoreLeq(hypotheses[b][m].score, hypotheses[b][n].score)
                  /\ Head(hypotheses[b][n].hist) = bos_index
                  /\ final_outputs[b + 1]
                       = PadTo(Tail(hypotheses[b][n].hist), width)
                  /\ width >= Len(hypotheses[b][n].hist) - 1

\* C10 witness: beam_search returned for a batch whose second instance was
\* retired before its first, with rows of different lengths and a pool whose
\* first entry is not its best.
C10_Witness ==
    /\ pc = "beam_done" /\ batch_size >= 2 /\ size >= 2
    /\ retired[1][1] < retired[0][1]
    /\ Len(results.predictions[1][1]) < Len(results.predictions[0][1])
    /\ \E b \in Instances :
         ScoreLess(hypotheses[b][1].score, results.scores[b][1])

----------------------------------------------------------------------------
\* the instances in the active set
Active == {batch_offset[i] : i \in 1 .. Len(batch_offset)}

\* a retired instance is out of the live arrays and of the next decoder call;
\* an instance not retired is in the active set
RetiredAreGone ==
    pc \in BeamPcs
    => /\ \A b \in Instances : Len(retired[b]) <= 1
       /\ pc = "beam_loop"
          => /\ Len(alive_seq) = Len(batch_offset) * size
             /\ \A b \in Instances : b \in Active <=> retired[b] = <<>>
             /\ \A n \in 1 .. Len(alive_seq) :
                  /\ retired[BeamKey(n)[4]] = <<>>
                  /\ retired[BeamKey(n)[5]] = <<>>
                  /\ retired[encoder_output[n]] = <<>>
                  /\ retired[src_mask[n]] = <<>>

\* one completed decode step: an active instance retires at this step if and
\* only if its rank-0 selected slot is finished, and a retired instance's
\* pool and result set stay as they are
RetiresWhenTopFinished ==
    (pc = "beam_loop" /\ pc' # "runtime_error")
    => \A b \in Instances :
         IF retired[b] # <<>>
         THEN /\ retired'[b] = retired[b]
              /\ hypotheses'[b] = hypotheses[b]
              /\ results'.predictions[b] = results.predictions[b]
              /\ results'.scores[b] = results.scores[b]
         ELSE IF retired'[b] # <<>>
         THEN /\ retired'[b] = <<step>>
              /\ Len(hypotheses'[b]) = Len(hypotheses[b]) + size
              /\ \/ Last(hypotheses'[b][Len(hypotheses[b]) + 1].hist) = eos_index
                 \/ step + 1 = max_output_length
         ELSE /\ pc' = "beam_loop"
              /\ step + 1 # max_output_length
              /\ \E i \in 1 .. Len(batch_offset') :
                   /\ batch_offset'[i] = b
                   /\ Last(alive_seq'[(i - 1) * size + 1]) # eos_index

\* C11: an instance is retired at exactly the first step at which its rank-0
\* selected slot is finished; from then on it is in no live array, no decoder
\* query is made for it and its pool and result set never change, while an
\* instance whose rank-0 slot is not finished stays active.
C11_RetiredAtFirstTopFinish ==
    []RetiredAreGone /\ [][RetiresWhenTopFinished]_vars

\* C11 witness: a step starts two steps after one instance was retired,
\* with another instance still active that has a finished lower-ranked beam
\* in its pool.
C11_Witness ==
    /\ pc = "beam_loop" /\ size >= 2 /\ batch_size >= 2
    /\ \E b \in Instances : retired[b] # <<>> /\ step >= retired[b][1] + 2
    /\ \E b \in Instances : retired[b] = <<>> /\ hypotheses[b] # <<>>

----------------------------------------------------------------------------
\* the log-probability instance b's model gives to tok after the tokens
\* prefix (BOS first) were fed from the start; 1, which is no log-probability,
\* when the model was never asked
TokenLogProb(b, prefix, tok) ==
    LET key == ReplayKey(b, prefix)
    IN  IF key \in DOMAIN oracle THEN At(LogSoftmax(oracle, key), tok) ELSE 1

\* the sum of the per-step log-probabilities of the tokens of seq behind BOS
RECURSIVE SeqLogProb(_, _)
SeqLogProb(b, seq) ==
    IF Len(seq) <= 1 THEN 0
    ELSE SeqLogProb(b, Front(seq)) + TokenLogProb(b, Front(seq), Last(seq))

\* C12 as stated: with the length penalty disabled, the running score added
\* to a live slot's new log-probabilities at a step t >= 1 is the sum of the
\* per-step log-probabilities of the tokens the slot selected before.
C12_RunningScoreIsSum ==
    (pc = "beam_loop" /\ alpha <= -1 /\ step >= 1
        /\ BroadcastOk(Len(alive_seq), topk_log_probs))
    => \A n \in 1 .. Len(alive_seq) :
         RunningScore(topk_log_probs, n)
             = SeqLogProb(SlotInstance(n), alive_seq[n])

----------------------------------------------------------------------------
\* the size token sequences selected for instance b at step 0: its live
\* slots, or the pool entries stored when it was retired at that step
Step0Seqs(b) ==
    IF retired[b] = <<>>
    THEN [r \in 1 .. size |->
             alive_seq[(RowOf(batch_offset, b) - 1) * size + r]]
    ELSE [r \in 1 .. size |-> hypotheses[b][r].hist]

\* C13: with at least as many tokens as beams and finite log-probabilities,
\* the size candidates selected at step 0 for an instance all come from beam
\* slot 0 and carry pairwise different tokens, and at the start of every
\* later step the size live sequences of an active instance are pairwise
\* distinct.
C13_BeamsDistinct ==
    output_size >= size
    => /\ (pc \in {"beam_loop", "beam_stack"} /\ n_queries = 1)
          => /\ Len(origins) = batch_size * size
             /\ \A n \in 1 .. Len(origins) : origins[n] = 0
             /\ \A b \in Instances : \A r, q \in 1 .. size :
                  /\ Len(Step0Seqs(b)[r]) = 2
                  /\ r # q => Last(Step0Seqs(b)[r]) # Last(Step0Seqs(b)[q])
       /\ (pc = "beam_loop" /\ step >= 1)
          => \A i \in 1 .. Len(batch_offset) : \A r, q \in 1 .. size :
               r # q => alive_seq[(i - 1) * size + r]
                            # alive_seq[(i - 1) * size + q]

\* C13 witness: a step starts, after the first, with two live beams of one
\* instance that come from different beams and end with the same token.
C13_Witness ==
    /\ pc = "beam_loop" /\ step >= 2 /\ size >= 2
    /\ \E i \in 1 .. Len(batch_offset) :
         /\ origins[(i - 1) * size + 1] # origins[(i - 1) * size + 2]
         /\ Last(alive_seq[(i - 1) * size + 1])
                = Last(alive_seq[(i - 1) * size + 2])

----------------------------------------------------------------------------
\* one step of greedy with return_logp: what is added to instance row n's
\* cumulative score is, where the step is counted at all, the log-probability
\* its own distribution gives to the token it selected
AddsOwnLogProb ==
    (pc = "greedy_loop" /\ return_logp /\ batch_size > 1)
    => \A n \in 1 .. batch_size :
         LET added == g_log_probs'[n] - g_log_probs[n]
             own == At(LogSoftmax(oracle', GreedyKey(n)), g_prev_y'[n])
         IN  added # 0 => added = own

\* C14 as stated: in greedy with return_logp and a batch of more than one
\* instance, the log-probability added to an instance's cumulative score at a
\* step is the one its own distribution gives to its own selected token.
C14_AddsOwnTokenLogProb == [][AddsOwnLogProb]_vars

----------------------------------------------------------------------------
\* C15 as stated: at the start of every beam_search step all per-slot arrays
\* hold exactly size slots for each active instance, in one dense order, and
\* the encoder output and source mask in slot i * size + r are those of the
\* instance batch_offset[i], also after instances were retired.  (There is no
\* attention vector yet at step 0.)
C15_SlotArraysAligned ==
    pc = "beam_loop"
    => LET slots == Len(batch_offset) * size
       IN  /\ Len(alive_seq) = slots
           /\ Len(topk_log_probs) = slots
           /\ Len(hidden) = slots
           /\ att_vectors # None => Len(att_vectors) = slots
           /\ Len(encoder_output) = slots
           /\ Len(src_mask) = slots
           /\ \A i \in 1 .. Len(batch_offset) : \A r \in 1 .. size :
                /\ encoder_output[(i - 1) * size + r] = batch_offset[i]
                /\ src_mask[(i - 1) * size + r] = batch_offset[i]

====
